---- MODULE Spec2Model ----
(***************************************************************************)
(* A model of pow, a small HTTP framework on top of uWebSockets.js.        *)
(*                                                                         *)
(* The repository holds two variants of the App class: the fuller one      *)
(* (request.body(), HTTPError, 204 on an empty result) and the minimal one *)
(* (no body decoding, silent end on an empty result).  Both are modelled;  *)
(* the variable `variant` says which one a behaviour runs.                 *)
(*                                                                         *)
(* Text is modelled character by character: a string is a sequence of      *)
(* one-character strings, so that number formatting, parseInt, template    *)
(* strings and JSON.stringify are computed, not assumed.                   *)
(***************************************************************************)
EXTENDS Integers, Sequences, FiniteSets, TLC

VARIABLES
    variant,    \* "fuller" or "minimal": which App class is running
    pc,         \* pc[q][r]: position of route r's handler invocation for request q
    guard,      \* guard[q][r]: the flags kept on that invocation's res object
    reqYield,   \* reqYield[q][r]: req.setYield(true) was called in that invocation
    sends,      \* sends[q][r]: number of explicit response.send() calls made so far
    outcome,    \* outcome[q][r]: "none", "returned" or "threw": how that handler ended (history)
    wire,       \* wire[q]: the terminal writes the transport received for request q, in order
    load,       \* the requests the transport delivers in this behaviour
    app,        \* the App object and the transport's listen sockets
    reqBody     \* reqBody[q]: the request body of q on its way through request.body()

vars == <<variant, pc, guard, reqYield, sends, outcome, wire, load, app, reqBody>>

----------------------------------------------------------------------------
(* Bounds of the model *)

\* explicit response.send() calls one handler invocation may make
MaxSends == 2
\* listen() calls made on one App
MaxListens == 2
\* close() calls made on one App
MaxCloses == 2
\* chunks the transport delivers one request body in
MaxChunks == 3

----------------------------------------------------------------------------
(* Text *)

Digits == <<"0", "1", "2", "3", "4", "5", "6", "7", "8", "9">>

IsDigit(c) == \E i \in 1..10 : Digits[i] = c

DigitValue(c) == (CHOOSE i \in 1..10 : Digits[i] = c) - 1

\* String(n) for an integer n: the decimal digits, with a sign for negatives
RECURSIVE NatToStr(_)
NatToStr(n) == IF n < 10 THEN <<Digits[n + 1]>>
               ELSE NatToStr(n \div 10) \o <<Digits[(n % 10) + 1]>>

NumToStr(n) == IF n < 0 THEN <<"-">> \o NatToStr(0 - n) ELSE NatToStr(n)

\* a number as JavaScript has it after parseInt: an integer or NaN
NaN == [nan |-> TRUE, n |-> 0]
Number(n) == [nan |-> FALSE, n |-> n]

\* `${x}` for the result of parseInt
StatusToStr(x) == IF x.nan THEN <<"N", "a", "N">> ELSE NumToStr(x.n)

RECURSIVE DigitsValue(_, _)
DigitsValue(s, acc) == IF s = <<>> \/ ~IsDigit(Head(s)) THEN acc
                       ELSE DigitsValue(Tail(s), acc * 10 + DigitValue(Head(s)))

RECURSIVE SkipSpaces(_)
SkipSpaces(s) == IF s # <<>> /\ Head(s) = " " THEN SkipSpaces(Tail(s)) ELSE s

\* parseInt(s, 10) on a string: leading blanks, an optional sign, then the longest
\* run of digits; NaN when there is no digit
ParseIntStr(s) ==
    LET t == SkipSpaces(s)
        neg == t # <<>> /\ Head(t) = "-"
        u == IF t # <<>> /\ Head(t) \in {"-", "+"} THEN Tail(t) ELSE t
    IN  IF u = <<>> \/ ~IsDigit(Head(u)) THEN NaN
        ELSE Number(IF neg THEN 0 - DigitsValue(u, 0) ELSE DigitsValue(u, 0))

----------------------------------------------------------------------------
(* JavaScript values a handler can return, send or throw *)

\* an optional property of an error object (status, code): absent, a number or a string
Absent == [p |-> "absent", n |-> 0, s |-> <<>>]
NumField(n) == [p |-> "num", n |-> n, s |-> <<>>]
StrField(s) == [p |-> "str", n |-> 0, s |-> s]

Undefined == [t |-> "undefined"]
Null == [t |-> "null"]
Str(s) == [t |-> "string", s |-> s]
Num(n) == [t |-> "number", n |-> n]
\* a plain object: its own enumerable properties in insertion order, each a string or a number
Obj(props) == [t |-> "object", props |-> props]
\* an object holding a reference to itself: JSON.stringify throws on it
Circular == [t |-> "circular"]
\* an Error; reason and message are strings, the empty string standing for an absent
\* property too (the code reads both with ||, which cannot tell the two apart)
Err(status, code, reason, message) ==
    [t |-> "error", http |-> FALSE, status |-> status, code |-> code,
     reason |-> reason, message |-> message]

\* class HTTPError extends Error: code is a constructor parameter property, the
\* message goes to Error (an omitted message is the empty string)
HTTPError(code, message) ==
    [t |-> "error", http |-> TRUE, status |-> Absent, code |-> NumField(code),
     reason |-> <<>>, message |-> message]

Prop(k, v) == [k |-> k, v |-> v]

\* !v
Falsy(v) == \/ v.t \in {"undefined", "null"}
            \/ v.t = "string" /\ v.s = <<>>
            \/ v.t = "number" /\ v.n = 0

\* typeof v
TypeOf(v) == CASE v.t = "undefined" -> "undefined"
               [] v.t = "string" -> "string"
               [] v.t = "number" -> "number"
               [] OTHER -> "object"

\* v instanceof Error
IsError(v) == v.t = "error"

----------------------------------------------------------------------------
(* JSON.stringify *)

\* one character of a JSON string literal: the quote and the backslash are escaped
JsonEscape(c) == IF c \in {"\"", "\\"} THEN <<"\\", c>> ELSE <<c>>

RECURSIVE JsonEscapeAll(_)
JsonEscapeAll(s) == IF s = <<>> THEN <<>> ELSE JsonEscape(Head(s)) \o JsonEscapeAll(Tail(s))

JsonQuote(s) == <<"\"">> \o JsonEscapeAll(s) \o <<"\"">>

JsonPrimitive(v) == IF v.t = "string" THEN JsonQuote(v.s) ELSE NumToStr(v.n)

RECURSIVE JsonMembers(_)
JsonMembers(props) ==
    IF props = <<>> THEN <<>>
    ELSE JsonQuote(Head(props).k) \o <<":">> \o JsonPrimitive(Head(props).v)
         \o (IF Tail(props) = <<>> THEN <<>> ELSE <<",">> \o JsonMembers(Tail(props)))

\* JSON.stringify(v): it throws on a circular structure, gives undefined (no text)
\* for undefined, and the JSON text otherwise
JsonStringify(v) ==
    CASE v.t = "circular" -> [throws |-> TRUE, undef |-> FALSE, text |-> <<>>]
      [] v.t = "undefined" -> [throws |-> FALSE, undef |-> TRUE, text |-> <<>>]
      [] v.t = "null" -> [throws |-> FALSE, undef |-> FALSE, text |-> <<"n", "u", "l", "l">>]
      [] v.t = "object" ->
            [throws |-> FALSE, undef |-> FALSE,
             text |-> <<"{">> \o JsonMembers(v.props) \o <<"}">>]
      [] OTHER -> [throws |-> FALSE, undef |-> FALSE, text |-> JsonPrimitive(v)]

\* a variant of isJSON with the two outcomes of the try block swapped
isJSONSwapped(v) == JsonStringify(v).throws

isJSON(v) == ~JsonStringify(v).throws

----------------------------------------------------------------------------
(* The response: guard flags on res, and what reaches the transport *)

\* the flags of the HttpResponse augmentation; a fresh res object has none set
FreshGuard == [aborted |-> FALSE, done |-> FALSE, calledNext |-> FALSE, calledSend |-> FALSE]

OK200 == <<"2", "0", "0", " ", "O", "K">>
ApplicationJson == <<"a", "p", "p", "l", "i", "c", "a", "t", "i", "o", "n", "/", "j", "s", "o", "n">>
InternalServerError ==
    <<"I", "n", "t", "e", "r", "n", "a", "l", " ", "S", "e", "r", "v", "e", "r", " ",
      "E", "r", "r", "o", "r">>
NoContent == <<"N", "o", " ", "C", "o", "n", "t", "e", "n", "t">>
CircularMessage == <<"c", "i", "r", "c", "u", "l", "a", "r">>

\* one grouped write, res.cork(() => res.writeStatus(status)[.writeHeader('Content-Type',
\* ctype)].end(body)): ctype is empty when no header is written
Written(status, ctype, body) == [status |-> status, ctype |-> ctype, body |-> body]

\* a variant of EndText that encodes a string as JSON before writing it
EndTextAsJson(v) == JsonPrimitive(v)

\* what res.end(x) puts on the wire for a string or a number x
EndText(v) == IF v.t = "string" THEN v.s ELSE NumToStr(v.n)

\* the result of a piece of the pipeline: the guard afterwards, the writes it made
\* (none or one), and whether it ended by throwing
Step(g, out, threw) == [g |-> g, out |-> out, threw |-> threw]

(* Fuller variant *)

\* variants of SendBails that leave out the check of done, or of calledNext
SendBailsWithoutDone(g) == g.aborted \/ g.calledNext
SendBailsWithoutNext(g) == g.aborted \/ g.done

\* a variant of SendBails that leaves out the check of aborted
SendBailsWithoutAborted(g) == g.done \/ g.calledNext

\* the three bail-outs at the top of response.send
SendBails(g) == g.aborted \/ g.done \/ g.calledNext

\* response.send(body)
Send(g, v) ==
    IF SendBails(g) THEN Step(g, <<>>, FALSE)
    ELSE LET g1 == [g EXCEPT !.calledSend = TRUE]
         IN  IF TypeOf(v) \in {"string", "number"}
             THEN Step([g1 EXCEPT !.done = TRUE], <<Written(OK200, <<>>, EndText(v))>>, FALSE)
             ELSE IF isJSON(v)
             THEN Step([g1 EXCEPT !.done = TRUE],
                       <<Written(OK200, ApplicationJson, JsonStringify(v).text)>>, FALSE)
             ELSE Step(g1, <<>>, FALSE)

\* a variant of CatchBails that leaves out the check of calledNext
CatchBailsWithoutNext(g) == g.aborted \/ g.done

\* the three bail-outs at the top of the catch block
CatchBails(g) == g.aborted \/ g.done \/ g.calledNext

\* a variant of StatusSource that reads code before status
StatusSourceCodeFirst(e) == IF e.code.p # "absent" THEN e.code
                            ELSE IF e.status.p # "absent" THEN e.status
                            ELSE StrField(<<"5", "0", "0">>)

\* error?.status ?? error?.code ?? '500'
StatusSource(e) == IF e.status.p # "absent" THEN e.status
                   ELSE IF e.code.p # "absent" THEN e.code
                   ELSE StrField(<<"5", "0", "0">>)

\* parseInt(x, 10): x is turned into a string first
ParseInt(x) == ParseIntStr(IF x.p = "num" THEN NumToStr(x.n) ELSE x.s)

ErrorStatus(e) == ParseInt(StatusSource(e))

\* a variant of ErrorReason that leaves out the message
ErrorReasonWithoutMessage(e) ==
    IF e.reason # <<>> THEN e.reason
    ELSE IF ParseInt(StatusSource(e)) = Number(500) THEN InternalServerError
    ELSE <<>>

\* error?.reason || error?.message || (status === 500 ? 'Internal Server Error' : '')
ErrorReason(e) ==
    IF e.reason # <<>> THEN e.reason
    ELSE IF e.message # <<>> THEN e.message
    ELSE IF ErrorStatus(e) = Number(500) THEN InternalServerError
    ELSE <<>>

\* a variant of ErrorMessage without the branch for HTTPError
ErrorMessageWithoutHTTP(e) ==
    StatusToStr(ErrorStatus(e))
    \o (IF ErrorReason(e) # <<>> THEN <<" ">> \o ErrorReason(e) ELSE <<>>)

\* the text used as status line and as body of an error response
ErrorMessage(e) ==
    IF e.http THEN NumToStr(e.code.n) \o <<" ">> \o e.message
    ELSE StatusToStr(ErrorStatus(e))
         \o (IF ErrorReason(e) # <<>> THEN <<" ">> \o ErrorReason(e) ELSE <<>>)

\* catch (error) { ... }
Catch(g, e) ==
    IF CatchBails(g) THEN Step(g, <<>>, FALSE)
    ELSE Step([g EXCEPT !.done = TRUE], <<Written(ErrorMessage(e), <<>>, ErrorMessage(e))>>, FALSE)

\* a variant of Resolved that returns on an error value instead of throwing it
ResolvedDroppingErrors(g, v) ==
    IF g.calledSend THEN Step(g, <<>>, FALSE)
    ELSE IF Falsy(v) THEN Catch(g, HTTPError(204, NoContent))
    ELSE IF IsError(v) THEN Step(g, <<>>, FALSE)
    ELSE Send(g, v)

\* a variant of Resolved that ends silently on an empty result
ResolvedSilentOnEmpty(g, v) ==
    IF g.calledSend THEN Step(g, <<>>, FALSE)
    ELSE IF Falsy(v) THEN Step(g, <<>>, FALSE)
    ELSE IF IsError(v) THEN Catch(g, v)
    ELSE Send(g, v)

\* a variant of Resolved that answers an empty result with 204 whatever the flags say
ResolvedAnsweringEmpty(g, v) ==
    IF Falsy(v)
    THEN Step([g EXCEPT !.done = TRUE],
              <<Written(ErrorMessage(HTTPError(204, NoContent)), <<>>,
                        ErrorMessage(HTTPError(204, NoContent)))>>, FALSE)
    ELSE IF g.calledSend THEN Step(g, <<>>, FALSE)
    ELSE IF IsError(v) THEN Catch(g, v)
    ELSE Send(g, v)

\* the try block after the handler resolved with v, and the catch block behind it
Resolved(g, v) ==
    IF g.calledSend THEN Step(g, <<>>, FALSE)
    ELSE IF Falsy(v) THEN Catch(g, HTTPError(204, NoContent))
    ELSE IF IsError(v) THEN Catch(g, v)
    ELSE LET s == Send(g, v)
         IN  IF s.threw THEN Step(Catch(s.g, Err(Absent, Absent, <<>>, CircularMessage)).g,
                                  s.out \o Catch(s.g, Err(Absent, Absent, <<>>, CircularMessage)).out,
                                  FALSE)
             ELSE s

\* the handler threw (or its promise rejected with) e
Rejected(g, e) == Catch(g, e)

(* Minimal variant *)

SendBailsMinimal(g) == g.aborted \/ g.done \/ g.calledNext

\* response.send(body): a string is written as it is, anything whose typeof is
\* 'object' as JSON (JSON.stringify runs inside the grouped write, after done is set,
\* and its exception leaves send), and anything else is ignored
SendMinimal(g, v) ==
    IF SendBailsMinimal(g) THEN Step(g, <<>>, FALSE)
    ELSE LET g1 == [g EXCEPT !.calledSend = TRUE]
         IN  IF TypeOf(v) = "string"
             THEN Step([g1 EXCEPT !.done = TRUE], <<Written(OK200, <<>>, v.s)>>, FALSE)
             ELSE IF TypeOf(v) = "object"
             THEN IF JsonStringify(v).throws
                  THEN Step([g1 EXCEPT !.done = TRUE], <<>>, TRUE)
                  ELSE Step([g1 EXCEPT !.done = TRUE],
                            <<Written(OK200, ApplicationJson, JsonStringify(v).text)>>, FALSE)
             ELSE Step(g1, <<>>, FALSE)

CatchBailsMinimal(g) == g.aborted \/ g.done \/ g.calledNext

\* parseInt(error?.status ?? '500', 10)
ErrorStatusMinimal(e) ==
    ParseInt(IF e.status.p # "absent" THEN e.status ELSE StrField(<<"5", "0", "0">>))

ErrorReasonMinimal(e) ==
    IF e.reason # <<>> THEN e.reason
    ELSE IF e.message # <<>> THEN e.message
    ELSE IF ErrorStatusMinimal(e) = Number(500) THEN InternalServerError
    ELSE <<>>

ErrorMessageMinimal(e) ==
    StatusToStr(ErrorStatusMinimal(e))
    \o (IF ErrorReasonMinimal(e) # <<>> THEN <<" ">> \o ErrorReasonMinimal(e) ELSE <<>>)

CatchMinimal(g, e) ==
    IF CatchBailsMinimal(g) THEN Step(g, <<>>, FALSE)
    ELSE Step([g EXCEPT !.done = TRUE],
              <<Written(ErrorMessageMinimal(e), <<>>, ErrorMessageMinimal(e))>>, FALSE)

ResolvedMinimal(g, v) ==
    IF g.calledSend THEN Step(g, <<>>, FALSE)
    ELSE IF Falsy(v) THEN Step(g, <<>>, FALSE)
    ELSE IF IsError(v) THEN CatchMinimal(g, v)
    ELSE LET s == SendMinimal(g, v)
         IN  IF s.threw
             THEN Step(CatchMinimal(s.g, Err(Absent, Absent, <<>>, CircularMessage)).g,
                       s.out \o CatchMinimal(s.g, Err(Absent, Absent, <<>>, CircularMessage)).out,
                       FALSE)
             ELSE s

RejectedMinimal(g, e) == CatchMinimal(g, e)

----------------------------------------------------------------------------
(* What handlers do: the values they return, send and throw *)

HelloWorld == <<"H", "e", "l", "l", "o", " ", "W", "o", "r", "l", "d", "!">>
TestError == <<"T", "E", "S", "T", "_", "E", "R", "R", "O", "R">>
Gone == <<"G", "o", "n", "e">>
NotFound == <<"N", "o", "t", " ", "F", "o", "u", "n", "d">>

\* { test: 'Hello', anotherTest: 'World!' }
TestObject ==
    Obj(<<Prop(<<"t", "e", "s", "t">>, Str(<<"H", "e", "l", "l", "o">>)),
          Prop(<<"a", "n", "o", "t", "h", "e", "r", "T", "e", "s", "t">>,
               Str(<<"W", "o", "r", "l", "d", "!">>))>>)

Strings == {Str(<<>>), Str(HelloWorld)}
Numbers == {Num(0), Num(7)}
Objects == {Obj(<<>>), TestObject}

\* errors that are not HTTPError: every combination of status, code and message
\* without a reason, and some with a reason
PlainErrors ==
    {Err(st, cd, <<>>, ms) :
        st \in {Absent, NumField(401)},
        cd \in {Absent, NumField(500), StrField(<<"E", "N", "O", "E", "N", "T">>)},
        ms \in {<<>>, TestError}}
    \cup {Err(Absent, Absent, Gone, <<>>), Err(Absent, Absent, Gone, TestError),
          Err(NumField(401), Absent, Gone, TestError)}

HTTPErrors == {HTTPError(404, NotFound), HTTPError(418, <<>>)}

\* what response.send() is given
SendValues == Strings \cup Numbers \cup Objects \cup {Undefined, Null, Circular}

\* what a handler throws; the minimal variant has no HTTPError class
ThrowValues(vr) == IF vr = "fuller" THEN PlainErrors \cup HTTPErrors ELSE PlainErrors

\* what a handler returns or resolves with
ReturnValues(vr) == SendValues \cup ThrowValues(vr)

----------------------------------------------------------------------------
(* The body decoder: App.parse and what it calls *)

\* a byte that is not valid UTF-8 on its own, and the character U+FFFD that
\* decoding puts in its place; every other byte of a buffer here is the byte of
\* the ASCII character it is written as
InvalidByte == "0xFF"
ReplacementChar == "U+FFFD"

\* buffer.toString(): the bytes decoded as UTF-8
BufferToString(buffer) ==
    [i \in 1..Len(buffer) |-> IF buffer[i] = InvalidByte THEN ReplacementChar ELSE buffer[i]]

\* the part of s before the first c (all of s when it holds no c)
RECURSIVE TakeUntil(_, _)
TakeUntil(s, c) == IF s = <<>> \/ Head(s) = c THEN <<>>
                   ELSE <<Head(s)>> \o TakeUntil(Tail(s), c)

\* the part of s after the first c (nothing when it holds no c)
DropThrough(s, c) == SubSeq(s, Len(TakeUntil(s, c)) + 2, Len(s))

\* querystring's unescape on text without percent signs: a plus is a blank
QueryUnescape(s) == [i \in 1..Len(s) |-> IF s[i] = "+" THEN " " ELSE s[i]]

\* the key=value parts of a query string, in order; a part without "=" has the
\* empty string as its value and an empty part is skipped
RECURSIVE QueryPairs(_)
QueryPairs(s) ==
    IF s = <<>> THEN <<>>
    ELSE LET part == TakeUntil(s, "&")
         IN  (IF part = <<>> THEN <<>>
              ELSE <<Prop(QueryUnescape(TakeUntil(part, "=")),
                          Str(QueryUnescape(DropThrough(part, "="))))>>)
             \o QueryPairs(DropThrough(s, "&"))

\* parseQueryString(text), for text without percent escapes and repeated keys
parseQueryString(text) == Obj(QueryPairs(text))

\* the outcome of reading one JSON value at the head of s: what is left behind it
JsonRead(v, rest) == [ok |-> TRUE, v |-> v, rest |-> rest]
JsonNoRead == [ok |-> FALSE, v |-> Undefined, rest |-> <<>>]

\* the characters of a string literal after its opening quote, up to the closing
\* quote: \" and \\ are the escapes read, a control of any other kind is an error
RECURSIVE JsonReadChars(_, _)
JsonReadChars(s, acc) ==
    IF s = <<>> THEN JsonNoRead
    ELSE IF Head(s) = "\"" THEN JsonRead(Str(acc), Tail(s))
    ELSE IF Head(s) = "\\"
    THEN IF Len(s) >= 2 /\ s[2] \in {"\"", "\\"}
         THEN JsonReadChars(Tail(Tail(s)), Append(acc, s[2]))
         ELSE JsonNoRead
    ELSE JsonReadChars(Tail(s), Append(acc, Head(s)))

\* the digits at the head of s
RECURSIVE DigitRun(_)
DigitRun(s) == IF s = <<>> \/ ~IsDigit(Head(s)) THEN <<>> ELSE <<Head(s)>> \o DigitRun(Tail(s))

\* one JSON value at the head of s, blanks before it skipped: null, a number
\* without sign, fraction or exponent (no leading zero), a string, or an object
\* whose members are such values
RECURSIVE JsonReadValue(_)
RECURSIVE JsonReadMembers(_, _)
JsonReadValue(s0) ==
    LET s == SkipSpaces(s0)
    IN  IF s = <<>> THEN JsonNoRead
        ELSE IF Head(s) = "\"" THEN JsonReadChars(Tail(s), <<>>)
        ELSE IF Head(s) = "{"
        THEN IF SkipSpaces(Tail(s)) # <<>> /\ Head(SkipSpaces(Tail(s))) = "}"
             THEN JsonRead(Obj(<<>>), Tail(SkipSpaces(Tail(s))))
             ELSE JsonReadMembers(Tail(s), <<>>)
        ELSE IF IsDigit(Head(s))
        THEN IF Head(s) = "0" THEN JsonRead(Num(0), Tail(s))
             ELSE JsonRead(Num(DigitsValue(s, 0)),
                           SubSeq(s, Len(DigitRun(s)) + 1, Len(s)))
        ELSE IF Len(s) >= 4 /\ SubSeq(s, 1, 4) = <<"n", "u", "l", "l">>
        THEN JsonRead(Null, SubSeq(s, 5, Len(s)))
        ELSE JsonNoRead

\* the members of an object after its opening brace or after a comma:
\* "key" : value, then a comma and more members, or the closing brace
JsonReadMembers(s0, acc) ==
    LET s == SkipSpaces(s0)
    IN  IF s = <<>> \/ Head(s) # "\"" THEN JsonNoRead
        ELSE LET key == JsonReadChars(Tail(s), <<>>)
                 colon == SkipSpaces(key.rest)
             IN  IF ~key.ok \/ colon = <<>> \/ Head(colon) # ":" THEN JsonNoRead
                 ELSE LET val == JsonReadValue(Tail(colon))
                          after == SkipSpaces(val.rest)
                      IN  IF ~val.ok \/ after = <<>> THEN JsonNoRead
                          ELSE IF Head(after) = "}"
                          THEN JsonRead(Obj(Append(acc, Prop(key.v.s, val.v))), Tail(after))
                          ELSE IF Head(after) = ","
                          THEN JsonReadMembers(Tail(after), Append(acc, Prop(key.v.s, val.v)))
                          ELSE JsonNoRead

\* JSON.parse(text): one value with nothing but blanks behind it, or a SyntaxError
JsonParse(text) ==
    LET read == JsonReadValue(text)
    IN  IF read.ok /\ SkipSpaces(read.rest) = <<>>
        THEN [throws |-> FALSE, v |-> read.v]
        ELSE [throws |-> TRUE, v |-> Undefined]

\* the names the switch statements of parse compare with
Text == <<"t", "e", "x", "t">>
Application == <<"a", "p", "p", "l", "i", "c", "a", "t", "i", "o", "n">>
Multipart == <<"m", "u", "l", "t", "i", "p", "a", "r", "t">>
Plain == <<"p", "l", "a", "i", "n">>
Html == <<"h", "t", "m", "l">>
Javascript == <<"j", "a", "v", "a", "s", "c", "r", "i", "p", "t">>
Json == <<"j", "s", "o", "n">>
Xml == <<"x", "m", "l">>
FormUrlencoded == <<"x", "-", "w", "w", "w", "-", "f", "o", "r", "m", "-", "u", "r", "l", "e", "n", "c", "o", "d", "e", "d">>
FormData == <<"f", "o", "r", "m", "-", "d", "a", "t", "a">>

\* what contentTypeParser gives: null, or an object with type and subtype
NullContentType == [null |-> TRUE, type |-> <<>>, subtype |-> <<>>]
ContentType(type, subtype) == [null |-> FALSE, type |-> type, subtype |-> subtype]

\* how a piece of parse ends: by return with a value, by an exception, or by
\* running on to the code behind it
Returns(v) == [how |-> "return", v |-> v]
Throws(e) == [how |-> "throw", v |-> e]
RunsOn == [how |-> "runs on", v |-> Undefined]

\* case 'multipart': ... break, and default: break
CaseMultipart(contentType, buffer) == RunsOn

\* case 'application': the inner switch returns for json and
\* x-www-form-urlencoded; its breaks leave the inner switch only, and with no
\* break behind it control runs on into case 'multipart'
CaseApplication(contentType, buffer) ==
    IF contentType.subtype = Json
    THEN IF JsonParse(BufferToString(buffer)).throws
         THEN Throws(Err(Absent, Absent, <<>>, <<"U", "n", "e", "x", "p", "e", "c", "t", "e", "d", " ", "t", "o", "k", "e", "n">>))
         ELSE Returns(JsonParse(BufferToString(buffer)).v)
    ELSE IF contentType.subtype = FormUrlencoded
    THEN Returns(parseQueryString(BufferToString(buffer)))
    ELSE CaseMultipart(contentType, buffer)

\* case 'text': the inner switch returns for plain and html; with no break behind
\* it control runs on into case 'application'
CaseText(contentType, buffer) ==
    IF contentType.subtype \in {Plain, Html}
    THEN Returns(Str(BufferToString(buffer)))
    ELSE CaseApplication(contentType, buffer)

\* switch (contentType.type) { ... }
SwitchType(contentType, buffer) ==
    IF contentType.type = Text THEN CaseText(contentType, buffer)
    ELSE IF contentType.type = Application THEN CaseApplication(contentType, buffer)
    ELSE IF contentType.type = Multipart THEN CaseMultipart(contentType, buffer)
    ELSE RunsOn

\* `Invalid content-type "${name}".`
InvalidContentType(name) == Err(Absent, Absent, <<>>, <<"I", "n", "v", "a", "l", "i", "d", " ", "c", "o", "n", "t", "e", "n", "t", "-", "t", "y", "p", "e", " ", "\"">> \o name \o <<"\"", ".">>)

\* App.parse(contentType, buffer): an exception inside the try block is caught and
\* parse returns undefined; a switch that ran through without a return ends in
\* the throw behind the try block
Parse(contentType, buffer) ==
    IF contentType.null THEN Throws(InvalidContentType(<<"n", "u", "l", "l">>))
    ELSE LET tried == SwitchType(contentType, buffer)
         IN  IF tried.how = "throw" THEN Returns(Undefined)
             ELSE IF tried.how = "return" THEN tried
             ELSE Throws(InvalidContentType(contentType.type \o <<"/">> \o contentType.subtype))

----------------------------------------------------------------------------
(* The dispatch pipeline *)

\* the requests in flight and, per request, the registrations that match it, in
\* registration order
Requests == {"a", "b"}
Routes == {1, 2}

PipelineIdle ==
    /\ pc = [q \in Requests |-> [r \in Routes |-> "pending"]]
    /\ guard = [q \in Requests |-> [r \in Routes |-> FreshGuard]]
    /\ reqYield = [q \in Requests |-> [r \in Routes |-> FALSE]]
    /\ sends = [q \in Requests |-> [r \in Routes |-> 0]]
    /\ outcome = [q \in Requests |-> [r \in Routes |-> "none"]]
    /\ wire = [q \in Requests |-> <<>>]

\* JavaScript runs one callback at a time: no handler is in the middle of a
\* synchronous stretch
NobodyRunning == \A q \in Requests, r \in Routes : pc[q][r] # "running"

\* the variant's response.send, try block and catch block
SendOf(g, v) == IF variant = "fuller" THEN Send(g, v) ELSE SendMinimal(g, v)
ResolvedOf(g, v) == IF variant = "fuller" THEN Resolved(g, v) ELSE ResolvedMinimal(g, v)
RejectedOf(g, e) == IF variant = "fuller" THEN Rejected(g, e) ELSE RejectedMinimal(g, e)

\* the writes of a step, as the transport receives them from route r
Tagged(r, out) == [i \in 1..Len(out) |->
                    [by |-> r, status |-> out[i].status, ctype |-> out[i].ctype,
                     body |-> out[i].body]]

\* The transport calls the callback registered for route r: the first matching
\* registration for a new request, a later one once the one before it has asked
\* to yield and has given control back.  The callback gets a fresh res object and
\* runs up to the handler call.
Dispatch(q, r) ==
    /\ q \in load
    /\ NobodyRunning
    /\ pc[q][r] = "pending"
    /\ r = 1 \/ (r - 1 \in Routes /\ pc[q][r - 1] # "pending" /\ reqYield[q][r - 1])
    /\ pc' = [pc EXCEPT ![q][r] = "running"]
    /\ guard' = [guard EXCEPT ![q][r] = FreshGuard]
    /\ UNCHANGED <<variant, reqYield, sends, outcome, wire, load, app, reqBody>>

\* a variant of Abort in which the aborted flag is one flag for all requests
AbortEveryRequest(q, r) ==
    /\ NobodyRunning
    /\ pc[q][r] # "pending"
    /\ ~guard[q][r].aborted
    /\ guard' = [p \in Requests |-> [guard[p] EXCEPT ![r].aborted = TRUE]]
    /\ UNCHANGED <<variant, pc, reqYield, sends, outcome, wire, load, app, reqBody>>

\* res.onAborted(() => { res.aborted = true }): the transport reports the
\* disconnect, between two callbacks
Abort(q, r) ==
    /\ NobodyRunning
    /\ pc[q][r] # "pending"
    /\ ~guard[q][r].aborted
    /\ guard' = [guard EXCEPT ![q][r].aborted = TRUE]
    /\ UNCHANGED <<variant, pc, reqYield, sends, outcome, wire, load, app, reqBody>>

\* the handler calls response.send(v): during its run, or from a callback of its
\* own after it resolved
HandlerSend(q, r, v) ==
    /\ pc[q][r] = "running" \/ (pc[q][r] = "finished" /\ NobodyRunning)
    /\ sends[q][r] < MaxSends
    /\ sends' = [sends EXCEPT ![q][r] = @ + 1]
    /\ guard' = [guard EXCEPT ![q][r] = SendOf(guard[q][r], v).g]
    /\ wire' = [wire EXCEPT ![q] = @ \o Tagged(r, SendOf(guard[q][r], v).out)]
    /\ UNCHANGED <<variant, pc, reqYield, outcome, load, app, reqBody>>

\* the handler calls next()
HandlerNext(q, r) ==
    /\ pc[q][r] = "running"
    /\ guard' = [guard EXCEPT ![q][r].calledNext = TRUE]
    /\ reqYield' = [reqYield EXCEPT ![q][r] = TRUE]
    /\ UNCHANGED <<variant, pc, sends, outcome, wire, load, app, reqBody>>

\* the handler awaits something: control goes back to the event loop
Suspend(q, r) ==
    /\ pc[q][r] = "running"
    /\ pc' = [pc EXCEPT ![q][r] = "suspended"]
    /\ UNCHANGED <<variant, guard, reqYield, sends, outcome, wire, load, app, reqBody>>

\* what the handler awaited has settled
Resume(q, r) ==
    /\ NobodyRunning
    /\ pc[q][r] = "suspended"
    /\ pc' = [pc EXCEPT ![q][r] = "running"]
    /\ UNCHANGED <<variant, guard, reqYield, sends, outcome, wire, load, app, reqBody>>

\* the handler returns v (or its promise resolves with v); the rest of the try
\* block runs, and the catch block if it throws
HandlerReturn(q, r, v) ==
    /\ pc[q][r] = "running"
    /\ pc' = [pc EXCEPT ![q][r] = "finished"]
    /\ outcome' = [outcome EXCEPT ![q][r] = "returned"]
    /\ guard' = [guard EXCEPT ![q][r] = ResolvedOf(guard[q][r], v).g]
    /\ wire' = [wire EXCEPT ![q] = @ \o Tagged(r, ResolvedOf(guard[q][r], v).out)]
    /\ UNCHANGED <<variant, reqYield, sends, load, app, reqBody>>

\* the handler throws e (or its promise rejects with e); the catch block runs
HandlerThrow(q, r, e) ==
    /\ pc[q][r] = "running"
    /\ pc' = [pc EXCEPT ![q][r] = "finished"]
    /\ outcome' = [outcome EXCEPT ![q][r] = "threw"]
    /\ guard' = [guard EXCEPT ![q][r] = RejectedOf(guard[q][r], e).g]
    /\ wire' = [wire EXCEPT ![q] = @ \o Tagged(r, RejectedOf(guard[q][r], e).out)]
    /\ UNCHANGED <<variant, reqYield, sends, load, app, reqBody>>

----------------------------------------------------------------------------
(* request.body(): the chunks of the request body, and the promise *)

\* the classifications of the content-type header
ContentTypes ==
    {NullContentType}
    \cup {ContentType(t, st) :
            t \in {Text, Application, Multipart, <<"i", "m", "a", "g", "e">>},
            st \in {Plain, Html, Javascript, Json, Xml, FormUrlencoded, FormData}}

\* request bodies: {"test":123}, the same cut short, a form, a text, a text with
\* a byte that is not UTF-8, and the empty body
TestBody == <<"{", "\"", "t", "e", "s", "t", "\"", ":", "1", "2", "3", "}">>
Payloads ==
    {TestBody, SubSeq(TestBody, 1, 8), <<"a", "=", "1", "&", "b">>, <<"H", "e", "l", "l", "o">>,
     <<"h", "i", InvalidByte>>, <<>>}

\* the sizes of the chunks the transport delivers a body in
ChunkSizes == 0..Len(TestBody)

\* the body of a request before body() is called: the classification of its
\* content-type header and the bytes the transport has still to deliver (incoming,
\* ended); on the side of body(): whether the promise is not yet made ("unread"),
\* pending ("reading"), "resolved" or "rejected", the route whose handler called
\* body(), the local variable buffer (hasBuffer: it has been assigned), what the
\* promise settled with, and two counts: the calls of the onData callback and
\* the calls of this.parse
UnreadBody(contentType, payload) ==
    [contentType |-> contentType, incoming |-> payload, ended |-> FALSE,
     state |-> "unread", reader |-> 0, hasBuffer |-> FALSE, buffer |-> <<>>,
     result |-> Undefined, chunks |-> 0, parses |-> 0]

\* no request has a body on its way
BodyIdle == reqBody = [q \in Requests |-> UnreadBody(NullContentType, <<>>)]

\* a variant of Settled that resolves the promise with whatever parse ended with
SettledResolvingAnyway(parsed) == [state |-> "resolved", result |-> parsed.v]

\* try { resolve(this.parse(contentType, buffer)) } catch (error) { reject(error) }
Settled(parsed) ==
    IF parsed.how = "throw" THEN [state |-> "rejected", result |-> parsed.v]
    ELSE [state |-> "resolved", result |-> parsed.v]

\* a variant of Accumulated that keeps the newest chunk only
AccumulatedNewestOnly(b, curBuf) == curBuf

\* buffer ? Buffer.concat([buffer, curBuf]) : (isLast ? curBuf : Buffer.concat([curBuf])):
\* a Buffer is truthy even when it is empty, and both arms of the inner choice
\* hold the bytes of curBuf
Accumulated(b, curBuf) == IF b.hasBuffer THEN b.buffer \o curBuf ELSE curBuf

\* the handler of route r calls request.body(): the promise is made and the
\* onData callback registered
CallBody(q, r) ==
    /\ variant = "fuller"
    /\ pc[q][r] = "running"
    /\ reqBody[q].state = "unread"
    /\ reqBody' = [reqBody EXCEPT ![q].state = "reading", ![q].reader = r]
    /\ UNCHANGED <<variant, pc, guard, reqYield, sends, outcome, wire, load, app>>

\* the transport calls the onData callback with the next n bytes (none, for an
\* empty chunk); isLast comes with the last bytes or with an empty chunk behind
\* them.  The callback appends
\* the chunk to buffer and on the last one settles the promise with what parse
\* does with the whole buffer.
OnData(q, n, isLast) ==
    /\ NobodyRunning
    /\ reqBody[q].state = "reading"
    /\ ~reqBody[q].ended
    /\ reqBody[q].chunks < MaxChunks
    /\ n \in 0..Len(reqBody[q].incoming)
    /\ isLast => n = Len(reqBody[q].incoming)
    /\ LET curBuf == SubSeq(reqBody[q].incoming, 1, n)
           buffer == Accumulated(reqBody[q], curBuf)
           settled == Settled(Parse(reqBody[q].contentType, buffer))
       IN  reqBody' = [reqBody EXCEPT
                      ![q].incoming = SubSeq(@, n + 1, Len(@)),
                      ![q].ended = isLast,
                      ![q].hasBuffer = TRUE,
                      ![q].buffer = buffer,
                      ![q].chunks = @ + 1,
                      ![q].parses = IF isLast THEN @ + 1 ELSE @,
                      ![q].state = IF isLast THEN settled.state ELSE @,
                      ![q].result = IF isLast THEN settled.result ELSE @]
    /\ UNCHANGED <<variant, pc, guard, reqYield, sends, outcome, wire, load, app>>

\* the handler, with the decoded body in hand, returns it
HandlerEcho(q, r) ==
    /\ reqBody[q].reader = r
    /\ reqBody[q].state = "resolved"
    /\ HandlerReturn(q, r, reqBody[q].result)

\* the handler lets the rejection of body() pass: it throws what body() failed with
HandlerPropagate(q, r) ==
    /\ reqBody[q].reader = r
    /\ reqBody[q].state = "rejected"
    /\ HandlerThrow(q, r, reqBody[q].result)

----------------------------------------------------------------------------
(* The App object: construction, listen, close *)

\* a host option that was not given
NotGiven == "not given"

\* the options an App is constructed with; port counts only when hasPort is set
Options == {[host |-> h, hasPort |-> hp, port |-> p] :
               h \in {NotGiven, "localhost", "192.168.0.7"},
               hp \in BOOLEAN, p \in {0, 3000}}

\* what the transport resolves an ephemeral port to
EphemeralPorts == {49152, 49153}

\* new App(options).  Beside the fields of the class (host, port, socket: 0 while
\* #socket is unset or false, a listen socket's handle otherwise) the record holds
\* the transport's side: the listen() calls whose callback is still to come, the
\* number of listen sockets opened (their handles are 1..opened), the handles
\* given to us_listen_socket_close in call order, what onReady callbacks were
\* told, and the numbers of listen() and close() calls made.
Constructed(options) ==
    [host |-> IF options.host = "localhost" THEN "127.0.0.1"
              ELSE IF options.host = NotGiven THEN "0.0.0.0" ELSE options.host,
     port |-> IF options.hasPort THEN options.port ELSE 0,
     socket |-> 0,
     binding |-> 0, opened |-> 0, closeCalls |-> <<>>, ready |-> <<>>,
     listens |-> 0, closes |-> 0]

\* app.listen(done): the transport is asked to bind host and port
Listen ==
    /\ app.listens < MaxListens
    /\ app' = [app EXCEPT !.listens = @ + 1, !.binding = @ + 1]
    /\ UNCHANGED <<variant, pc, guard, reqYield, sends, outcome, wire, load, reqBody>>

\* a variant of Bound that resolves the port whatever the configured port is
BoundResolvingAnyway(resolved) ==
    /\ app.binding > 0
    /\ app' = [app EXCEPT !.binding = @ - 1,
                          !.opened = @ + 1,
                          !.socket = app.opened + 1,
                          !.port = resolved,
                          !.ready = Append(@, [host |-> app.host, port |-> resolved])]
    /\ UNCHANGED <<variant, pc, guard, reqYield, sends, outcome, wire, load, reqBody>>

\* the callback given to the transport's listen runs with the listen socket
Bound(resolved) ==
    /\ app.binding > 0
    /\ app' = [app EXCEPT !.binding = @ - 1,
                          !.opened = @ + 1,
                          !.socket = app.opened + 1,
                          !.port = IF app.port = 0 THEN resolved ELSE @,
                          !.ready = Append(@, [host |-> app.host,
                                               port |-> IF app.port = 0 THEN resolved
                                                        ELSE app.port])]
    /\ UNCHANGED <<variant, pc, guard, reqYield, sends, outcome, wire, load, reqBody>>

\* the same callback when the transport could not bind: it is given false
BindFailed ==
    /\ app.binding > 0
    /\ \E p \in (IF app.port = 0 THEN {0 - 1, 0} ELSE {app.port}) :
          app' = [app EXCEPT !.binding = @ - 1,
                             !.socket = 0,
                             !.port = p,
                             !.ready = Append(@, [host |-> app.host, port |-> p])]
    /\ UNCHANGED <<variant, pc, guard, reqYield, sends, outcome, wire, load, reqBody>>

\* app.close()
Close ==
    /\ app.closes < MaxCloses
    /\ app' = [app EXCEPT !.closes = @ + 1,
                          !.closeCalls = IF app.socket # 0 THEN Append(@, app.socket) ELSE @]
    /\ UNCHANGED <<variant, pc, guard, reqYield, sends, outcome, wire, load, reqBody>>

\* an App that is not part of the behaviour
AppIdle == app = Constructed([host |-> NotGiven, hasPort |-> FALSE, port |-> 0])

InitApp ==
    /\ variant \in {"fuller", "minimal"}
    /\ load = {}
    /\ PipelineIdle
    /\ BodyIdle
    /\ app \in {Constructed(o) : o \in Options}

NextApp ==
    \/ Listen
    \/ \E p \in EphemeralPorts : Bound(p)
    \/ BindFailed
    \/ Close

SpecApp == InitApp /\ [][NextApp]_vars

Init ==
    /\ variant \in {"fuller", "minimal"}
    /\ load = {"a"}
    /\ PipelineIdle
    /\ AppIdle
    /\ BodyIdle

Next ==
    \/ \E q \in Requests, r \in Routes : Dispatch(q, r)
    \/ \E q \in Requests, r \in Routes : Abort(q, r)
    \/ \E q \in Requests, r \in Routes : \E v \in SendValues : HandlerSend(q, r, v)
    \/ \E q \in Requests, r \in Routes : HandlerNext(q, r)
    \/ \E q \in Requests, r \in Routes : Suspend(q, r)
    \/ \E q \in Requests, r \in Routes : Resume(q, r)
    \/ \E q \in Requests, r \in Routes : \E v \in ReturnValues(variant) : HandlerReturn(q, r, v)
    \/ \E q \in Requests, r \in Routes : \E e \in ThrowValues(variant) : HandlerThrow(q, r, e)

Spec == Init /\ [][Next]_vars

\* what a handler that reads the body returns or sends of its own
OwnValues == {Undefined, Str(HelloWorld)}

\* one request to the fuller variant, with a body and a handler that reads it
InitBody ==
    /\ variant = "fuller"
    /\ load = {"a"}
    /\ PipelineIdle
    /\ AppIdle
    /\ \E ct \in ContentTypes, payload \in Payloads :
          reqBody = [q \in Requests |->
                    IF q \in load THEN UnreadBody(ct, payload)
                    ELSE UnreadBody(NullContentType, <<>>)]

NextBody ==
    \/ \E q \in Requests, r \in Routes : Dispatch(q, r)
    \/ \E q \in Requests, r \in Routes : CallBody(q, r)
    \/ \E q \in Requests : \E n \in ChunkSizes, isLast \in BOOLEAN : OnData(q, n, isLast)
    \/ \E q \in Requests, r \in Routes : Suspend(q, r)
    \/ \E q \in Requests, r \in Routes : Resume(q, r)
    \/ \E q \in Requests, r \in Routes : \E v \in OwnValues : HandlerSend(q, r, v)
    \/ \E q \in Requests, r \in Routes : \E v \in OwnValues : HandlerReturn(q, r, v)
    \/ \E q \in Requests, r \in Routes : HandlerEcho(q, r)
    \/ \E q \in Requests, r \in Routes : HandlerPropagate(q, r)

SpecBody == InitBody /\ [][NextBody]_vars

\* what the handlers of two requests in flight together send and return, and
\* what they throw: new Error('TEST_ERROR')
SharedValues == {Str(HelloWorld)}
SharedErrors == {Err(Absent, Absent, <<>>, TestError)}

\* every request is in flight, under either variant
InitMulti ==
    /\ variant \in {"fuller", "minimal"}
    /\ load = Requests
    /\ PipelineIdle
    /\ AppIdle
    /\ BodyIdle

\* the registrations request q matches: the first request matches both, every
\* other request the first one only
Matching(q) == IF q = "a" THEN Routes ELSE {1}

NextMulti ==
    \/ \E q \in Requests : \E r \in Matching(q) : Dispatch(q, r)
    \/ \E q \in Requests : \E r \in Matching(q) : Abort(q, r)
    \/ \E q \in Requests : \E r \in Matching(q) : \E v \in SharedValues : HandlerSend(q, r, v)
    \/ \E q \in Requests : \E r \in Matching(q) : HandlerNext(q, r)
    \/ \E q \in Requests : \E r \in Matching(q) : Suspend(q, r)
    \/ \E q \in Requests : \E r \in Matching(q) : Resume(q, r)
    \/ \E q \in Requests : \E r \in Matching(q) : \E v \in SharedValues : HandlerReturn(q, r, v)
    \/ \E q \in Requests : \E r \in Matching(q) : \E e \in SharedErrors : HandlerThrow(q, r, e)

SpecMulti == InitMulti /\ [][NextMulti]_vars

----------------------------------------------------------------------------
(* Properties *)

\* the terminal writes route r's invocation for request q has made, in order
WrittenBy(q, r) == SelectSeq(wire[q], LAMBDA w : w.by = r)

\* the numeric status a client reads from a status line
StatusOf(w) == ParseIntStr(w.status)

\* nothing has resolved the response yet: no abort, no write, no next(), no send()
Unresolved(q, r) == guard[q][r] = FreshGuard

\* C1: one handler invocation makes at most one terminal write, whatever the
\* handler sends, returns or throws and whenever the abort fires; and once done
\* is set no step adds a write of that invocation.
C1_AtMostOneTerminalWrite ==
    /\ [](\A q \in Requests, r \in Routes : Len(WrittenBy(q, r)) <= 1)
    /\ [][\A q \in Requests, r \in Routes :
            guard[q][r].done => WrittenBy(q, r)' = WrittenBy(q, r)]_vars

\* a handler sent twice and then threw, and one write came of the three attempts
C1_Witness ==
    \E q \in Requests, r \in Routes :
        /\ variant = "fuller" /\ sends[q][r] = 2 /\ outcome[q][r] = "threw"
        /\ guard[q][r].done /\ Len(WrittenBy(q, r)) = 1

\* a send() of this invocation has written its response
SendSucceeded(q, r) ==
    /\ guard[q][r].calledSend
    /\ \E i \in 1..Len(wire[q]) : wire[q][i].by = r /\ wire[q][i].status = OK200

\* C2: after a send() that wrote, every further send() call of the invocation,
\* with any value, changes neither the wire nor the guard.
C2_SendIdempotent ==
    [][\A q \in Requests, r \in Routes :
          SendSucceeded(q, r) =>
              \A v \in SendValues : HandlerSend(q, r, v) => (wire' = wire /\ guard' = guard)]_vars

\* send() was called twice with nothing else in the way, and one response is on the wire
C2_Witness ==
    \E q \in Requests, r \in Routes :
        /\ variant = "fuller" /\ sends[q][r] = 2 /\ SendSucceeded(q, r)
        /\ ~guard[q][r].aborted /\ ~guard[q][r].calledNext
        /\ Len(WrittenBy(q, r)) = 1

\* C3 as stated: a handler that returns any string S, with the response still
\* unresolved, gets the response 200 with body S.
C3_AnyStringReturned ==
    [][\A q \in Requests, r \in Routes : \A v \in Strings :
          (Unresolved(q, r) /\ HandlerReturn(q, r, v)) =>
              /\ WrittenBy(q, r)' = <<[by |-> r, status |-> OK200, ctype |-> <<>>, body |-> v.s]>>
              /\ StatusOf(WrittenBy(q, r)'[1]) = Number(200)]_vars

\* C3 amended: a handler that returns a non-empty string S, with the response
\* still unresolved, gets the response 200 with body S.
C3_NonEmptyStringReturned ==
    [][\A q \in Requests, r \in Routes : \A v \in Strings :
          (v.s # <<>> /\ Unresolved(q, r) /\ HandlerReturn(q, r, v)) =>
              /\ WrittenBy(q, r)' = <<[by |-> r, status |-> OK200, ctype |-> <<>>, body |-> v.s]>>
              /\ StatusOf(WrittenBy(q, r)'[1]) = Number(200)]_vars

\* a handler returned 'Hello World!' and that is the response
C3_Witness ==
    \E q \in Requests, r \in Routes :
        /\ variant = "fuller" /\ outcome[q][r] = "returned" /\ sends[q][r] = 0
        /\ WrittenBy(q, r) = <<[by |-> r, status |-> OK200, ctype |-> <<>>, body |-> HelloWorld]>>

\* C4: a handler that returns a JSON-serializable object O, with the response
\* still unresolved, gets one write with status 200 OK, the header Content-Type:
\* application/json and the body JSON.stringify(O).
C4_ObjectReturned ==
    [][\A q \in Requests, r \in Routes : \A v \in Objects :
          (Unresolved(q, r) /\ HandlerReturn(q, r, v)) =>
              /\ WrittenBy(q, r)' = <<[by |-> r, status |-> OK200, ctype |-> ApplicationJson,
                                       body |-> JsonStringify(v).text]>>
              /\ StatusOf(WrittenBy(q, r)'[1]) = Number(200)]_vars

\* {"test":"Hello","anotherTest":"World!"}
TestObjectText ==
    <<"{", "\"", "t", "e", "s", "t", "\"", ":", "\"", "H", "e", "l", "l", "o", "\"", ",",
      "\"", "a", "n", "o", "t", "h", "e", "r", "T", "e", "s", "t", "\"", ":",
      "\"", "W", "o", "r", "l", "d", "!", "\"", "}">>

\* a handler returned { test: 'Hello', anotherTest: 'World!' } and its JSON text is
\* the response
C4_Witness ==
    \E q \in Requests, r \in Routes :
        /\ variant = "fuller" /\ outcome[q][r] = "returned" /\ sends[q][r] = 0
        /\ WrittenBy(q, r) = <<[by |-> r, status |-> OK200, ctype |-> ApplicationJson,
                                body |-> TestObjectText]>>

\* the response observed for request q is the first one completed on its connection
Observed(q) == Head(wire[q])

\* C5 as stated: when a handler has called next() and a later matching registration
\* exists, no response of the request comes from that handler, whatever else it
\* does (send before or after next(), return, throw).
C5_YieldedNeverResponds ==
    \A q \in Requests, r \in Routes :
        (guard[q][r].calledNext /\ r + 1 \in Routes) => WrittenBy(q, r) = <<>>

\* C5 amended: a handler writes nothing from its call of next() on; if it had not
\* already written with send() before that call, no response comes from it and
\* the response observed is a later registration's.
C5_YieldedWritesNothingAfter ==
    /\ [][\A q \in Requests, r \in Routes :
            guard[q][r].calledNext => WrittenBy(q, r)' = WrittenBy(q, r)]_vars
    /\ [](\A q \in Requests, r \in Routes :
            (guard[q][r].calledNext /\ ~guard[q][r].done /\ r + 1 \in Routes) =>
                /\ WrittenBy(q, r) = <<>>
                /\ (r = 1 /\ wire[q] # <<>>) => Observed(q).by > r)

\* the first handler called next(), then sent and threw; the second returned
\* 'Hello World!', which is the only response
C5_Witness ==
    \E q \in Requests :
        /\ variant = "fuller"
        /\ guard[q][1].calledNext /\ sends[q][1] > 0 /\ outcome[q][1] = "threw"
        /\ outcome[q][2] = "returned"
        /\ wire[q] = <<[by |-> 2, status |-> OK200, ctype |-> <<>>, body |-> HelloWorld]>>

\* "<code> <msg>"
CodeAndMessage(e) == NumToStr(e.code.n) \o <<" ">> \o e.message

\* C6: a handler that throws HTTPError(code, msg), with the response still
\* unresolved, gets one write whose status line and body are both "<code> <msg>";
\* the status a client reads from it is code.
C6_HTTPErrorThrown ==
    [][\A q \in Requests, r \in Routes : \A e \in HTTPErrors :
          (variant = "fuller" /\ Unresolved(q, r) /\ HandlerThrow(q, r, e)) =>
              /\ WrittenBy(q, r)' = <<[by |-> r, status |-> CodeAndMessage(e), ctype |-> <<>>,
                                       body |-> CodeAndMessage(e)]>>
              /\ StatusOf(WrittenBy(q, r)'[1]) = Number(e.code.n)]_vars

\* a handler threw HTTPError(404, 'Not Found') and "404 Not Found" is the response
C6_Witness ==
    \E q \in Requests, r \in Routes :
        /\ outcome[q][r] = "threw" /\ sends[q][r] = 0
        /\ WrittenBy(q, r) =
               <<[by |-> r,
                  status |-> <<"4", "0", "4", " ", "N", "o", "t", " ", "F", "o", "u", "n", "d">>,
                  ctype |-> <<>>,
                  body |-> <<"4", "0", "4", " ", "N", "o", "t", " ", "F", "o", "u", "n", "d">>]>>

\* new Error(X): no status, no code, no reason
BareErrors == {e \in PlainErrors : e.status = Absent /\ e.code = Absent /\ e.reason = <<>>}

\* C7: a handler that throws a bare Error("X") with a message X, with the response
\* still unresolved, gets status 500 and the body "500 X".
C7_BareErrorThrown ==
    [][\A q \in Requests, r \in Routes : \A e \in BareErrors :
          (e.message # <<>> /\ Unresolved(q, r) /\ HandlerThrow(q, r, e)) =>
              /\ Len(WrittenBy(q, r)') = 1
              /\ WrittenBy(q, r)'[1].body = <<"5", "0", "0", " ">> \o e.message
              /\ StatusOf(WrittenBy(q, r)'[1]) = Number(500)]_vars

\* a handler threw new Error('TEST_ERROR') and "500 TEST_ERROR" is the response
C7_Witness ==
    \E q \in Requests, r \in Routes :
        /\ variant = "fuller" /\ outcome[q][r] = "threw" /\ sends[q][r] = 0
        /\ Len(WrittenBy(q, r)) = 1
        /\ WrittenBy(q, r)[1].body =
               <<"5", "0", "0", " ", "T", "E", "S", "T", "_", "E", "R", "R", "O", "R">>

\* the value of an optional property as it prints
FieldText(x) == IF x.p = "num" THEN NumToStr(x.n) ELSE x.s

\* the status property if present, else the code property if present, else 500
FieldOrDefault(e) == IF e.status.p # "absent" THEN e.status
                     ELSE IF e.code.p # "absent" THEN e.code
                     ELSE NumField(500)

\* the reason property, else the message, else "Internal Server Error" when the
\* status x is exactly 500, else nothing
ReasonFor(e, x) == IF e.reason # <<>> THEN e.reason
                   ELSE IF e.message # <<>> THEN e.message
                   ELSE IF x = <<"5", "0", "0">> THEN InternalServerError
                   ELSE <<>>

\* "<status>" followed by " <reason>" when the reason is not empty
StatusAndReason(x, reason) == x \o (IF reason # <<>> THEN <<" ">> \o reason ELSE <<>>)

ParsedText(x) == StatusToStr(ParseIntStr(FieldText(x)))

ReturnedAsThrown(q, r, e) == ResolvedOf(guard[q][r], e) = RejectedOf(guard[q][r], e)

SentNothing(q, r) ==
    /\ guard[q][r].calledSend
    /\ ~guard[q][r].done /\ ~guard[q][r].aborted /\ ~guard[q][r].calledNext

ClosedTimes(h) == Cardinality({i \in 1..Len(app.closeCalls) : app.closeCalls[i] = h})

\* C10: close() is idempotent and a no-op if the app never listened: with no
\* listen socket bound no transport call is made, and however often close() is
\* called each listen socket is given to the transport's close at most once.
C10_CloseIdempotent ==
    /\ app.opened = 0 => app.closeCalls = <<>>
    /\ \A h \in 1..app.opened : ClosedTimes(h) <= 1

\* the last thing an onReady callback was told
LastReady == app.ready[Len(app.ready)]

\* C11: the port accessor changes only in a binding callback, and only from 0:
\* listen() and close() leave it alone and a non-zero port is never changed.  When
\* the binding callback runs with a listen socket for an app whose port is 0, the
\* accessor is from then the port resolved from that socket, and every onReady
\* callback is told the value the accessor has.
C11_PortResolvedByBinding ==
    /\ [][app.port' # app.port =>
            (app.port = 0 /\ Len(app.ready') = Len(app.ready) + 1)]_vars
    /\ [][\A p \in EphemeralPorts :
            (app.port = 0 /\ Bound(p)) => (app.port' = p /\ LastReady'.port = p)]_vars
    /\ [][Len(app.ready') = Len(app.ready) + 1 => LastReady'.port = app.port']_vars

\* an app constructed without a port listened, the socket resolved to 49153, and
\* both the accessor and onReady say so
C11_Witness ==
    /\ app.socket # 0 /\ app.listens = 1
    /\ app.port = 49153
    /\ app.ready = <<[host |-> "0.0.0.0", port |-> 49153]>>

\* C12: once the abort listener of an invocation has fired, the flag stays set and
\* no step adds a write of that invocation: not a send(), not the send of the
\* value returned, not the error path; and the listener can fire while the handler
\* is suspended or after it has finished.
C12_NoWriteAfterAbort ==
    [][\A q \in Requests, r \in Routes :
          guard[q][r].aborted =>
              (guard[q][r].aborted' /\ WrittenBy(q, r)' = WrittenBy(q, r))]_vars

\* the abort fired before the handler had sent anything; its two calls of send()
\* and its return wrote nothing
C12_Witness ==
    \E q \in Requests, r \in Routes :
        /\ guard[q][r] = [FreshGuard EXCEPT !.aborted = TRUE]
        /\ sends[q][r] = 2 /\ outcome[q][r] = "returned"
        /\ wire[q] = <<>>

\* C13: the transport is never told to yield by an invocation whose calledNext is
\* not set; a call of next() leaves both set; and once calledNext is set it stays
\* set and no step adds a write of that invocation, whether the handler then
\* sends, returns or throws.
C13_NextGuardsLaterWrites ==
    /\ [](\A q \in Requests, r \in Routes : reqYield[q][r] => guard[q][r].calledNext)
    /\ [][\A q \in Requests, r \in Routes :
            HandlerNext(q, r) => (guard[q][r].calledNext' /\ reqYield[q][r]')]_vars
    /\ [][\A q \in Requests, r \in Routes :
            guard[q][r].calledNext =>
                (guard[q][r].calledNext' /\ WrittenBy(q, r)' = WrittenBy(q, r))]_vars

\* a handler called next(), then sent and threw, and wrote nothing
C13_Witness ==
    \E q \in Requests, r \in Routes :
        /\ guard[q][r] = [FreshGuard EXCEPT !.calledNext = TRUE]
        /\ reqYield[q][r]
        /\ sends[q][r] > 0 /\ outcome[q][r] = "threw"
        /\ WrittenBy(q, r) = <<>>

\* what a handler with nothing to answer resolves with: undefined, null, '' and 0
EmptyValues == {Undefined, Null, Str(<<>>), Num(0)}

\* "204 No Content"
NoContent204 == <<"2", "0", "4", " ", "N", "o", " ", "C", "o", "n", "t", "e", "n", "t">>

\* C14: a handler that resolves with an empty or absent value, with the response
\* still unresolved (no send(), no next(), no abort), gets in the fuller variant
\* exactly one write whose status line and body are "204 No Content", and done
\* set; in the minimal variant nothing is written and no flag changes.
C14_EmptyResult ==
    [][\A q \in Requests, r \in Routes : \A v \in EmptyValues :
          (Unresolved(q, r) /\ HandlerReturn(q, r, v)) =>
              IF variant = "fuller"
              THEN /\ WrittenBy(q, r)' = <<[by |-> r, status |-> NoContent204, ctype |-> <<>>,
                                            body |-> NoContent204]>>
                   /\ StatusOf(WrittenBy(q, r)'[1]) = Number(204)
                   /\ guard[q][r]' = [FreshGuard EXCEPT !.done = TRUE]
              ELSE /\ wire' = wire
                   /\ guard[q][r]' = FreshGuard]_vars

\* a handler returned without a value and "204 No Content" is the response
C14_Witness ==
    \E q \in Requests, r \in Routes :
        /\ variant = "fuller" /\ outcome[q][r] = "returned" /\ sends[q][r] = 0
        /\ ~guard[q][r].aborted /\ ~guard[q][r].calledNext
        /\ WrittenBy(q, r) = <<[by |-> r, status |-> NoContent204, ctype |-> <<>>,
                                body |-> NoContent204]>>

\* the values JSON.stringify throws on
NotSerializable == {v \in SendValues : JsonStringify(v).throws}

\* C15: a handler that returns a value that fails JSON serialization, with the
\* response still unresolved, gets the response of the generic error path: one
\* write, of an error status, and done set.
C15_SerializationFailureThrown ==
    [][\A q \in Requests, r \in Routes : \A v \in NotSerializable :
          (Unresolved(q, r) /\ HandlerReturn(q, r, v)) =>
              /\ guard[q][r].done'
              /\ Len(WrittenBy(q, r)') = 1
              /\ WrittenBy(q, r)'[1].status # OK200
              /\ WrittenBy(q, r)'[1].body = WrittenBy(q, r)'[1].status]_vars

\* C16: in the fuller variant every invocation whose handler has returned or
\* thrown, whose abort listener has not fired and that did not call next(), has
\* done set and exactly one terminal write.
C16_NoOutcomeDropped ==
    \A q \in Requests, r \in Routes :
        (/\ variant = "fuller"
         /\ outcome[q][r] # "none"
         /\ ~guard[q][r].aborted /\ ~guard[q][r].calledNext) =>
            (guard[q][r].done /\ Len(WrittenBy(q, r)) = 1)

\* a string or a number as it reads on the wire when written as it is
AsIs(v) == IF v.t = "string" THEN v.s ELSE NumToStr(v.n)

\* C17: a send(v) of a string or a number v, called while none of aborted, done
\* and calledNext is set, adds one write with status 200 OK, no Content-Type
\* header and v as the body, and sets done.
C17_SendWritesAsIs ==
    [][\A q \in Requests, r \in Routes : \A v \in Strings \cup Numbers :
          (/\ ~guard[q][r].aborted /\ ~guard[q][r].done /\ ~guard[q][r].calledNext
           /\ HandlerSend(q, r, v)) =>
              /\ guard[q][r].done'
              /\ WrittenBy(q, r)' = <<[by |-> r, status |-> OK200, ctype |-> <<>>,
                                       body |-> AsIs(v)]>>]_vars

\* the promise of body() has settled for request q
BodySettled(q) == reqBody[q].state \in {"resolved", "rejected"}

\* the text of the bytes the decoder was given for request q
BodyText(q) == BufferToString(reqBody[q].buffer)

\* body() failed for request q with an error whose message is message
BodyFailedWith(q, message) ==
    /\ reqBody[q].state = "rejected"
    /\ reqBody[q].result.t = "error"
    /\ reqBody[q].result.message = message

\* body() gave the value v for request q
BodyGave(q, v) == reqBody[q].state = "resolved" /\ reqBody[q].result = v

\* C18: the decoder goes by the exact pair type/subtype: text/plain and text/html
\* give the bytes as text, application/json the parsed JSON (for a body that is
\* JSON), application/x-www-form-urlencoded the form mapping, a null
\* classification the error 'Invalid content-type "null".', and every other pair
\* an error naming type/subtype and never a value.
C18_DecisionTable ==
    \A q \in Requests :
        BodySettled(q) =>
            LET ct == reqBody[q].contentType
            IN  IF ct.null THEN BodyFailedWith(q, <<"I", "n", "v", "a", "l", "i", "d", " ", "c", "o", "n", "t", "e", "n", "t", "-", "t", "y", "p", "e", " ", "\"", "n", "u", "l", "l", "\"", ".">>)
                ELSE IF ct \in {ContentType(Text, Plain), ContentType(Text, Html)}
                THEN BodyGave(q, Str(BodyText(q)))
                ELSE IF ct = ContentType(Application, Json)
                THEN ~JsonParse(BodyText(q)).throws => BodyGave(q, JsonParse(BodyText(q)).v)
                ELSE IF ct = ContentType(Application, FormUrlencoded)
                THEN BodyGave(q, parseQueryString(BodyText(q)))
                ELSE BodyFailedWith(q, <<"I", "n", "v", "a", "l", "i", "d", " ", "c", "o", "n", "t", "e", "n", "t", "-", "t", "y", "p", "e", " ", "\"">> \o ct.type \o <<"/">> \o ct.subtype
                                       \o <<"\"", ".">>)

\* C19: when the content type is application/json and the bytes are not JSON,
\* body() is rejected and gives no value.
C19_MalformedJsonRejected ==
    \A q \in Requests :
        (/\ BodySettled(q)
         /\ reqBody[q].contentType = ContentType(Application, Json)
         /\ JsonParse(BodyText(q)).throws) =>
            reqBody[q].state = "rejected"

\* "500 " and the message of the error body() failed with
Status500With(q) == <<"5", "0", "0", " ">> \o reqBody[q].result.message

\* C20: body() is rejected exactly when parse throws, and with what parse threw;
\* the delivery of a chunk, the last one included, writes nothing and changes no
\* flag.  After a rejection nothing is written until the handler acts: if it
\* returns a value of its own the response is that value's (200 and the string,
\* or 204 for no value), and if it throws what body() failed with the response
\* is that of the generic error path, "500 <message>".
C20_BodyFailurePropagatesToCaller ==
    /\ [](\A q \in Requests :
            BodySettled(q) =>
                LET parsed == Parse(reqBody[q].contentType, reqBody[q].buffer)
                IN  /\ reqBody[q].state = "rejected" <=> parsed.how = "throw"
                    /\ reqBody[q].result = parsed.v)
    /\ [][\A q \in Requests : \A n \in ChunkSizes, isLast \in BOOLEAN :
            OnData(q, n, isLast) => (wire' = wire /\ guard' = guard)]_vars
    /\ [][\A q \in Requests, r \in Routes :
            (reqBody[q].state = "rejected" /\ reqBody[q].reader = r /\ Unresolved(q, r)) =>
                /\ WrittenBy(q, r) = <<>>
                /\ HandlerReturn(q, r, Str(HelloWorld)) =>
                       WrittenBy(q, r)' = <<[by |-> r, status |-> OK200, ctype |-> <<>>,
                                             body |-> HelloWorld]>>
                /\ HandlerReturn(q, r, Undefined) =>
                       WrittenBy(q, r)' = <<[by |-> r, status |-> NoContent204,
                                             ctype |-> <<>>, body |-> NoContent204]>>
                /\ HandlerPropagate(q, r) =>
                       WrittenBy(q, r)' = <<[by |-> r, status |-> Status500With(q),
                                             ctype |-> <<>>, body |-> Status500With(q)]>>]_vars

\* body() failed on a request without a content type, the handler let the error
\* pass, and the response is '500 Invalid content-type "null".'
C20_Witness ==
    \E q \in Requests, r \in Routes :
        /\ reqBody[q].state = "rejected" /\ reqBody[q].reader = r
        /\ reqBody[q].contentType = NullContentType
        /\ outcome[q][r] = "threw" /\ sends[q][r] = 0
        /\ WrittenBy(q, r) = <<[by |-> r, status |-> <<"5", "0", "0", " ", "I", "n", "v", "a", "l", "i", "d", " ", "c", "o", "n", "t", "e", "n", "t", "-", "t", "y", "p", "e", " ", "\"", "n", "u", "l", "l", "\"", ".">>, ctype |-> <<>>,
                                body |-> <<"5", "0", "0", " ", "I", "n", "v", "a", "l", "i", "d", " ", "c", "o", "n", "t", "e", "n", "t", "-", "t", "y", "p", "e", " ", "\"", "n", "u", "l", "l", "\"", ".">>]>>

\* all the bytes of the body of request q: those the callback has been given so
\* far, in arrival order, and those still to come
WholeBody(q) == reqBody[q].buffer \o reqBody[q].incoming

\* C21: body() calls the decoder at most once, and has called it exactly when the
\* promise is settled, which is not before the last chunk has arrived; each chunk,
\* an empty one included, is appended to the buffer in arrival order, so the
\* bytes of the body stay the same from chunk to chunk; and the promise settles
\* with what the decoder makes of the whole body.
C21_ChunksConcatenatedDecodedOnce ==
    /\ [](\A q \in Requests :
            /\ reqBody[q].parses <= 1
            /\ BodySettled(q) <=> reqBody[q].parses = 1
            /\ BodySettled(q) => (reqBody[q].ended /\ reqBody[q].incoming = <<>>)
            /\ BodySettled(q) =>
                   reqBody[q].result = Parse(reqBody[q].contentType, WholeBody(q)).v)
    /\ [][\A q \in Requests :
            /\ WholeBody(q)' = WholeBody(q)
            /\ reqBody[q].parses' # reqBody[q].parses =>
                   (~reqBody[q].ended /\ reqBody[q].ended')
            /\ \A n \in ChunkSizes :
                   OnData(q, n, FALSE) =>
                       /\ reqBody[q].state' = "reading"
                       /\ reqBody[q].buffer' =
                              reqBody[q].buffer \o SubSeq(reqBody[q].incoming, 1, n)]_vars

\* the body {"test":123} of an application/json request arrived in three chunks
\* and body() resolved, once, with the object parsed from all twelve bytes
C21_Witness ==
    \E q \in Requests :
        /\ reqBody[q].contentType = ContentType(Application, Json)
        /\ reqBody[q].chunks = 3 /\ reqBody[q].parses = 1
        /\ reqBody[q].buffer = TestBody
        /\ reqBody[q].state = "resolved"
        /\ reqBody[q].result = Obj(<<Prop(<<"t", "e", "s", "t">>, Num(123))>>)

\* this step changes something of request q: a flag, a write, a handler's
\* position, or the yield asked of the transport
Touched(q) ==
    \/ guard[q]' # guard[q]
    \/ wire[q]' # wire[q]
    \/ pc[q]' # pc[q]
    \/ reqYield[q]' # reqYield[q]

\* no step changes something of two requests
OneRequestPerStep ==
    \A p \in Requests, q \in Requests : (p # q /\ Touched(p)) => ~Touched(q)

\* whatever state the other requests are in, a handler whose response is still
\* unresolved gets its own response: 200 and the string it returns, or
\* "500 TEST_ERROR" for the error it throws
OwnResponse ==
    \A q \in Requests, r \in Routes :
        Unresolved(q, r) =>
            /\ HandlerReturn(q, r, Str(HelloWorld)) =>
                   WrittenBy(q, r)' = <<[by |-> r, status |-> OK200, ctype |-> <<>>,
                                         body |-> HelloWorld]>>
            /\ HandlerThrow(q, r, Err(Absent, Absent, <<>>, TestError)) =>
                   WrittenBy(q, r)' = <<[by |-> r,
                                         status |-> <<"5", "0", "0", " ">> \o TestError,
                                         ctype |-> <<>>,
                                         body |-> <<"5", "0", "0", " ">> \o TestError]>>

Returning(q, r) == outcome[q][r] = "none" /\ outcome[q][r]' = "returned"

\* C23: when a send() of the invocation has written its response and the handler
\* then returns, whatever the value, the step changes neither the wire nor the
\* flags: the response of the send() stays the only one, and no 204 and no error
\* response is written.
C23_ReturnAfterSendIgnored ==
    [][\A q \in Requests, r \in Routes :
          (SendSucceeded(q, r) /\ Returning(q, r)) =>
              /\ wire' = wire /\ guard' = guard
              /\ Len(WrittenBy(q, r)') = 1
              /\ WrittenBy(q, r)'[1].status = OK200]_vars

\* a handler sent 'Hello World!' once and then returned; the one response is
\* 200 with that string
C23_Witness ==
    \E q \in Requests, r \in Routes :
        /\ sends[q][r] = 1 /\ outcome[q][r] = "returned"
        /\ guard[q][r] = [FreshGuard EXCEPT !.calledSend = TRUE, !.done = TRUE]
        /\ wire[q] = <<[by |-> r, status |-> OK200, ctype |-> <<>>, body |-> HelloWorld]>>

\* C24: in every reachable state done is set for a handler invocation exactly
\* when one terminal write of that invocation has reached the transport: never
\* set without a write, never unset after one.
C24_DoneIffOneWrite ==
    \A q \in Requests, r \in Routes :
        guard[q][r].done <=> Len(WrittenBy(q, r)) = 1

====
